---- MODULE Spec2Model ----
(***************************************************************************)
(* A model of the Modbus server (slave) of package mbserver, server.go:    *)
(* the per-device register store and function tables built by NewServer,   *)
(* RegisterFunctionHandler, the dispatcher handle(), the single handler()  *)
(* goroutine draining requestChan, and Close().  The transport goroutines  *)
(* that feed requestChan, the Framer and the standard function handlers    *)
(* live in other files of the package and are modelled from their          *)
(* contracts.                                                              *)
(***************************************************************************)
EXTENDS Integers, Sequences, FiniteSets, TLC

(***************************************************************************)
(* Bounds of the model.                                                    *)
(***************************************************************************)
MaxRequests == 2
MaxRegister == 1

(***************************************************************************)
(* Values.                                                                 *)
(***************************************************************************)
\* A nil func value, a nil *Exception.
Nil == "nil"

\* The slaveIDs arguments NewServer is called with.
SlaveIDLists == {<<1>>, <<1, 2>>}

\* The slave IDs and function codes (uint8) that frames and registrations use.
SlaveIDs == {1, 2}
FunctionCodes == {5, 99}

\* The function codes the application registers handlers for.
RegisterCodes == {5, 99}

\* The coil / register addresses (uint16) that frames use.
Addresses == {0}

\* The listeners the application opens.
Listeners == {1}

\* The handlers the application registers; a registration may also pass nil.
CustomHandlers == {"h1"}
RegisterArgs == CustomHandlers \cup {Nil}

\* The connections peers open.
Conns == {1, 2}

\* Put(m, k, v): the Go map or array m after m[k] = v.
Put(m, k, v) == [x \in (DOMAIN m) \cup {k} |-> IF x = k THEN v ELSE m[x]]

\* A functionCodeTable is a [256]func array; it is kept as the map of its
\* non-nil entries, every other code being nil.
EmptyTable == [c \in {} |-> Nil]

Entry(table, funcCode) == IF funcCode \in DOMAIN table THEN table[funcCode] ELSE Nil

SetEntry(table, funcCode, fn) ==
    IF fn = Nil
    THEN [c \in (DOMAIN table) \ {funcCode} |-> table[c]]
    ELSE Put(table, funcCode, fn)

\* table, exists := s.function[slaveID]
MapLookup(fmap, slaveID) ==
    [exists |-> slaveID \in DOMAIN fmap,
     table  |-> IF slaveID \in DOMAIN fmap THEN fmap[slaveID] ELSE EmptyTable]

ErrUndefinedSlave(slaveID) == <<"Unable to register function for undefined slave ID", slaveID>>
NoError == <<>>

\* RegisterFunctionHandler run to completion by one goroutine.
RegisterFunctionHandler(fmap, slaveID, funcCode, fn) ==
    LET r == MapLookup(fmap, slaveID) IN
    IF ~r.exists
    THEN [function |-> fmap, err |-> ErrUndefinedSlave(slaveID)]
    ELSE [function |-> Put(fmap, slaveID, SetEntry(r.table, funcCode, fn)), err |-> NoError]

\* Mutant: the last default is registered for code 6 again, not for code 16.
DefaultFunctionsCode6Twice ==
    << <<1, "ReadCoils">>, <<2, "ReadDiscreteInputs">>, <<3, "ReadHoldingRegisters">>,
       <<4, "ReadInputRegisters">>, <<5, "WriteSingleCoil">>, <<6, "WriteHoldingRegister">>,
       <<15, "WriteMultipleCoils">>, <<6, "WriteHoldingRegisters">> >>

\* The default functions, in the order NewServer registers them.
DefaultFunctions ==
    << <<1, "ReadCoils">>, <<2, "ReadDiscreteInputs">>, <<3, "ReadHoldingRegisters">>,
       <<4, "ReadInputRegisters">>, <<5, "WriteSingleCoil">>, <<6, "WriteHoldingRegister">>,
       <<15, "WriteMultipleCoils">>, <<16, "WriteHoldingRegisters">> >>

RECURSIVE AddDefaults(_, _, _)
AddDefaults(fmap, ID, defs) ==
    IF defs = <<>> THEN fmap
    ELSE AddDefaults(RegisterFunctionHandler(fmap, ID, Head(defs)[1], Head(defs)[2]).function,
                     ID, Tail(defs))

\* make([]byte, 65536), make([]uint16, 65536): all zero.
ZeroTable == [a \in Addresses |-> 0]

\* Mutant: the loop registers the defaults without "s.function[ID] = functionCodeTable{}".
AllocateSlaveNoTable(s, ID) ==
    [s EXCEPT !.DiscreteInputs   = Put(@, ID, ZeroTable),
              !.Coils            = Put(@, ID, ZeroTable),
              !.HoldingRegisters = Put(@, ID, ZeroTable),
              !.InputRegisters   = Put(@, ID, ZeroTable),
              !.function         = AddDefaults(@, ID, DefaultFunctions)]

\* The body of NewServer's loop over slaveIDs.
AllocateSlave(s, ID) ==
    [s EXCEPT !.DiscreteInputs   = Put(@, ID, ZeroTable),
              !.Coils            = Put(@, ID, ZeroTable),
              !.HoldingRegisters = Put(@, ID, ZeroTable),
              !.InputRegisters   = Put(@, ID, ZeroTable),
              !.function         = AddDefaults(Put(@, ID, EmptyTable), ID, DefaultFunctions)]

RECURSIVE AllocateSlaves(_, _)
AllocateSlaves(s, ids) ==
    IF ids = <<>> THEN s ELSE AllocateSlaves(AllocateSlave(s, Head(ids)), Tail(ids))

\* Mutant: NewServer starts a second handler() goroutine.
TwoHandlerGoroutines == {1, 2}

\* The goroutines NewServer starts with "go s.handler()".
HandlerGoroutines == {1}

\* Mutant: requestChan is made with a buffer of one request.
ChanCapOne == Len(<<"request">>)

\* make(chan *Request): the capacity of requestChan.
ChanCap == 0

NewServer(slaveIDs) ==
    AllocateSlaves([DiscreteInputs |-> <<>>, Coils |-> <<>>, HoldingRegisters |-> <<>>,
                    InputRegisters |-> <<>>, function |-> <<>>,
                    listeners |-> <<>>, ports |-> <<>>,
                    requestChan |-> [buf |-> <<>>, sendq |-> <<>>],
                    goroutines |-> HandlerGoroutines],
                   slaveIDs)

(***************************************************************************)
(* Frames, exceptions and function handlers: collaborators of server.go,   *)
(* modelled from their contracts.                                          *)
(***************************************************************************)
\* A frame: addressing metadata, payload, and the exception set on it (if any);
\* calls lists the setters that were invoked on it.
Frame(slaveID, funcCode, data) ==
    [slaveID |-> slaveID, function |-> funcCode, data |-> data, exception |-> Nil, calls |-> <<>>]

\* The payload of a request: <<address, value>> for a write (the coil is set),
\* <<address, quantity>> for a read.
RequestData(funcCode) == {<<a, 1>> : a \in Addresses}

Frames == UNION {{Frame(id, f, d) : d \in RequestData(f)} : id \in SlaveIDs, f \in FunctionCodes}

GetFunction(frame) == frame.function
GetSlaveID(frame) == frame.slaveID
Copy(frame) == Frame(frame.slaveID, frame.function, <<>>)
SetData(frame, data) == [frame EXCEPT !.data = data, !.calls = Append(@, "SetData")]
SetException(frame, exception) ==
    [frame EXCEPT !.exception = exception, !.calls = Append(@, "SetException")]

\* What a function handler returns and what it leaves in the register store.
Outcome(s, data, exception) ==
    [data |-> data, exception |-> exception,
     Coils |-> s.Coils, HoldingRegisters |-> s.HoldingRegisters]

\* function(s, frame) for each handler; s holds the four register maps.
Invoke(fn, s, frame) ==
    LET id   == frame.slaveID
        addr == frame.data[1]
        val  == frame.data[2]
    IN CASE fn = "ReadCoils"            -> Outcome(s, <<s.Coils[id][addr]>>, "Success")
         [] fn = "ReadDiscreteInputs"   -> Outcome(s, <<s.DiscreteInputs[id][addr]>>, "Success")
         [] fn = "ReadHoldingRegisters" -> Outcome(s, <<s.HoldingRegisters[id][addr]>>, "Success")
         [] fn = "ReadInputRegisters"   -> Outcome(s, <<s.InputRegisters[id][addr]>>, "Success")
         [] fn \in {"WriteSingleCoil", "WriteMultipleCoils"} ->
              [Outcome(s, <<addr, val>>, "Success")
                  EXCEPT !.Coils = [s.Coils EXCEPT ![id][addr] = val]]
         [] fn \in {"WriteHoldingRegister", "WriteHoldingRegisters"} ->
              [Outcome(s, <<addr, val>>, "Success")
                  EXCEPT !.HoldingRegisters = [s.HoldingRegisters EXCEPT ![id][addr] = val]]
         \* An application's handler of function 99, which rejects other functions.
         [] fn = "h1" -> IF frame.function = 99 THEN Outcome(s, <<101>>, "Success")
                         ELSE Outcome(s, <<>>, "IllegalDataValue")

(***************************************************************************)
(* The dispatcher handle(), as the pure parts of its steps.                *)
(***************************************************************************)
\* Mutant: "exists" is not tested, a missing slave reads as an empty table.
HandleBranchIgnoreExists(exists, functions, funcCode) ==
    IF Entry(functions, funcCode) # Nil THEN "call" ELSE "IllegalFunction"

\* Mutant: the function value is called without the nil test.
HandleBranchNoNilTest(exists, functions, funcCode) ==
    IF ~exists THEN "SlaveDeviceFailure" ELSE "call"

\* Lines 89-98: where handle() goes after "functions, exists := s.function[slaveID]":
\* to the call of the handler, or straight to an exception.
HandleBranch(exists, functions, funcCode) ==
    IF ~exists THEN "SlaveDeviceFailure"
    ELSE IF Entry(functions, funcCode) # Nil THEN "call"
    ELSE "IllegalFunction"

\* Line 94: the function value that is called, s.function[slaveID][function].
CalledFunction(fmap, slaveID, funcCode) == Entry(MapLookup(fmap, slaveID).table, funcCode)

\* Mutant: the exception is compared with nil, not with &Success.
HandleReturnNilTest(response, exception) ==
    IF exception # Nil THEN SetException(response, exception) ELSE response

\* Mutant: the exception is set without the test of line 101.
HandleReturnAlways(response, exception) == SetException(response, exception)

\* Lines 101-105.
HandleReturn(response, exception) ==
    IF exception # "Success" THEN SetException(response, exception) ELSE response

(***************************************************************************)
(* The state.                                                              *)
(***************************************************************************)
VARIABLES
    \* The fields of Server.
    DiscreteInputs, Coils, HoldingRegisters, InputRegisters, function,
    listeners, ports, requestChan,
    \* handler[w]: the handler() goroutine w, its position and the locals of handle().
    handler,
    \* caller[c]: the application goroutine c, calling RegisterFunctionHandler and Close.
    caller,
    \* transport[t]: the transport goroutine of accepted connection t.
    transport,
    \* The listeners that are open; the listener each connection came from.
    open, accepted,
    \* The process died (an unrecovered panic or a fatal runtime error).
    crashed,
    \* History: the IDs NewServer was given; the number of requests sent on requestChan
    \* (request i is the i-th one sent); the request IDs in the order handler() received
    \* them and in the order their responses were written; the last Write; whether
    \* Close has returned, the listeners s.listeners held when it ran and whether a
    \* request was sent and not answered when it first ran; the handler of the last completed registration of
    \* each (slave ID, function) pair; the number of calls of RegisterFunctionHandler; the value of the last
    \* WriteSingleCoil request received for each coil.
    configured, requests, dispatched, written, lastWrite, closed, registered, calls,
    coilSet

serverVars == <<DiscreteInputs, Coils, HoldingRegisters, InputRegisters, function,
                listeners, ports, requestChan>>
storeVars == <<DiscreteInputs, Coils, HoldingRegisters, InputRegisters>>
vars == <<DiscreteInputs, Coils, HoldingRegisters, InputRegisters, function,
          listeners, ports, requestChan, handler, caller, transport, open, accepted,
          crashed, configured, requests, dispatched, written, lastWrite, closed,
          registered, calls, coilSet>>
history == <<configured, requests, dispatched, written, lastWrite, closed, registered, calls,
             coilSet>>

NoFrame == Frame(0, 0, <<>>)
NoRequest == [id |-> 0, conn |-> 0, frame |-> NoFrame]

\* A handler() goroutine waiting for the next request.
Idle ==
    [pc |-> "recv", request |-> NoRequest, response |-> NoFrame, functions |-> EmptyTable,
     exists |-> FALSE, data |-> <<>>, exception |-> Nil,
     \* History: the handlers invoked for the request; the handler bound to its
     \* (slave ID, function) in s.function when the call was made; the handler that
     \* the last completed registration of the pair bound (see Expected).
     called |-> <<>>, bound |-> Nil, expected |-> "any"]

\* An application goroutine between two calls; err is what its last call returned.
Returned(err) ==
    [pc |-> "idle", slaveID |-> 0, funcCode |-> 0, fn |-> Nil, table |-> EmptyTable,
     err |-> err]

Pairs == SlaveIDs \X FunctionCodes

\* The application goroutines that call RegisterFunctionHandler and Close.
Application == {1}

\* The state NewServer returns to an application of goroutines callers.
InitWith(callers) ==
    \E slaveIDs \in SlaveIDLists :
        LET s == NewServer(slaveIDs) IN
        /\ DiscreteInputs = s.DiscreteInputs
        /\ Coils = s.Coils
        /\ HoldingRegisters = s.HoldingRegisters
        /\ InputRegisters = s.InputRegisters
        /\ function = s.function
        /\ listeners = s.listeners
        /\ ports = s.ports
        /\ requestChan = s.requestChan
        /\ handler = [w \in s.goroutines |-> Idle]
        /\ caller = [c \in callers |-> Returned(NoError)]
        /\ transport = <<>>
        /\ open = {}
        /\ accepted = <<>>
        /\ crashed = FALSE
        /\ configured = {slaveIDs[i] : i \in DOMAIN slaveIDs}
        /\ requests = 0
        /\ dispatched = <<>>
        /\ written = <<>>
        /\ lastWrite = [id |-> 0, conn |-> 0, carried |-> 0]
        /\ closed = [returned |-> FALSE, tracked |-> {}, pending |-> FALSE]
        /\ registered = [p \in Pairs |-> "none"]
        /\ calls = 0
        /\ coilSet = s.Coils

Init == InitWith(Application)

(***************************************************************************)
(* The transport goroutines and the endpoints they serve.                  *)
(***************************************************************************)
\* Listener l is opened and appended to s.listeners.
ListenTCP(l) ==
    /\ ~crashed
    /\ \A i \in DOMAIN listeners : listeners[i] # l
    /\ listeners' = Append(listeners, l)
    /\ open' = open \cup {<<"listener", l>>}
    /\ UNCHANGED <<storeVars, function, ports, requestChan, handler, caller, transport,
                   accepted, crashed, history>>

\* Listener l, open, accepts connection c; a goroutine reads frames from it.
Accept(l, c) ==
    /\ ~crashed
    /\ <<"listener", l>> \in open
    /\ c \notin DOMAIN accepted
    /\ \A d \in Conns : d < c => d \in DOMAIN accepted
    /\ accepted' = Put(accepted, c, l)
    /\ transport' = Put(transport, c, "read")
    /\ UNCHANGED <<serverVars, handler, caller, open, crashed, history>>

\* requestChan is an unbuffered channel: a send blocks until handler() receives
\* its value, behind the sends that blocked before it.
ChanSend(ch, t, request) ==
    IF Len(ch.buf) < ChanCap
    THEN [ch EXCEPT !.buf = Append(@, request)]
    ELSE [ch EXCEPT !.sendq = Append(@, [task |-> t, request |-> request])]

\* The transport goroutine of connection t has decoded a frame and executes
\* "s.requestChan <- request".
Submit(t, frame) ==
    /\ ~crashed
    /\ t \in DOMAIN transport
    /\ transport[t] = "read"
    /\ requests < MaxRequests
    /\ LET request == [id |-> requests + 1, conn |-> t, frame |-> frame] IN
       /\ requests' = requests + 1
       /\ requestChan' = ChanSend(requestChan, t, request)
       /\ transport' = IF Len(requestChan.buf) < ChanCap THEN transport
                       ELSE [transport EXCEPT ![t] = "blocked"]
    /\ UNCHANGED <<storeVars, function, listeners, ports, handler, caller, open, accepted,
                   crashed, configured, dispatched, written, lastWrite, closed, registered,
                   calls, coilSet>>

(***************************************************************************)
(* handler(): the loop of lines 109-115, with handle() inlined.            *)
(***************************************************************************)
\* Mutant: the send that was taken stays queued.
DequeueKeep(q) == [elem |-> Head(q), rest |-> q]

\* Mutant: the receive takes the send that blocked last.
DequeueLast(q) == [elem |-> q[Len(q)], rest |-> SubSeq(q, 1, Len(q) - 1)]

\* The blocked send a receive takes, and the sends left waiting.
Dequeue(q) == [elem |-> Head(q), rest |-> Tail(q)]

\* "<-s.requestChan": the value received, the channel afterwards, the sender woken.
ChanRecv(ch) ==
    IF ch.sendq # <<>>
    THEN LET d == Dequeue(ch.sendq) IN
         [request |-> IF ch.buf = <<>> THEN d.elem.request ELSE Head(ch.buf),
          chan |-> [ch EXCEPT !.sendq = d.rest,
                              !.buf = IF ch.buf = <<>> THEN <<>>
                                      ELSE Append(Tail(ch.buf), d.elem.request)],
          woken |-> {d.elem.task}]
    ELSE [request |-> Head(ch.buf), chan |-> [ch EXCEPT !.buf = Tail(@)], woken |-> {}]

\* Some application goroutine is inside RegisterFunctionHandler(p[1], p[2], ...).
Registering(p) ==
    \E c \in DOMAIN caller :
        caller[c].pc = "store" /\ <<caller[c].slaveID, caller[c].funcCode>> = p

\* The handler the last completed registration of the request's pair bound, when
\* no registration of the pair is in progress as the dispatch starts.
Expected(request) ==
    LET p == <<request.frame.slaveID, request.frame.function>> IN
    IF Registering(p) \/ p \notin DOMAIN registered THEN "any"
    ELSE IF registered[p] = "none" THEN "any" ELSE registered[p]

\* The coils last set by the requests received: a request that finds WriteSingleCoil
\* bound to its function sets the coil of its address to its value.
CoilSet(set, frame, fn) ==
    IF fn = "WriteSingleCoil"
    THEN [set EXCEPT ![frame.slaveID][frame.data[1]] = frame.data[2]]
    ELSE set

\* Line 111, request := <-s.requestChan, and lines 85-105 of handle() up to the call
\* of line 94: copy the frame, look the slave's table up, branch; without a call,
\* set the exception and return.
Receive(w) ==
    /\ ~crashed
    /\ handler[w].pc = "recv"
    /\ requestChan.sendq # <<>> \/ requestChan.buf # <<>>
    /\ LET rcv == ChanRecv(requestChan)
           request == rcv.request
           funcCode == GetFunction(request.frame)
           slaveID == GetSlaveID(request.frame)
           r == MapLookup(function, slaveID)
           branch == HandleBranch(r.exists, r.table, funcCode)
       IN /\ requestChan' = rcv.chan
          /\ transport' = [t \in DOMAIN transport |->
                              IF t \in rcv.woken THEN "read" ELSE transport[t]]
          /\ dispatched' = Append(dispatched, request.id)
          /\ handler' = [handler EXCEPT ![w] =
                 [Idle EXCEPT !.request = request,
                              !.response = IF branch = "call" THEN Copy(request.frame)
                                           ELSE HandleReturn(Copy(request.frame), branch),
                              !.functions = r.table,
                              !.exists = r.exists,
                              !.pc = IF branch = "call" THEN "call" ELSE "write",
                              !.exception = IF branch = "call" THEN Nil ELSE branch,
                              !.expected = Expected(request)]]
          /\ coilSet' = CoilSet(coilSet, request.frame, Entry(r.table, funcCode))
    /\ UNCHANGED <<storeVars, function, listeners, ports, caller, open, accepted, crashed,
                   configured, requests, written, lastWrite, closed, registered, calls>>

\* The handler bound to the frame's (slave ID, function) in s.function.
Binding(frame) ==
    IF frame.slaveID \in DOMAIN function /\ frame.function \in DOMAIN function[frame.slaveID]
    THEN function[frame.slaveID][frame.function] ELSE Nil

\* Lines 94-105: data, exception = s.function[slaveID][function](s, request.frame),
\* response.SetData(data), set the exception and return.  Calling a nil function
\* value panics.
Call(w) ==
    /\ ~crashed
    /\ handler[w].pc = "call"
    /\ LET h == handler[w]
           fn == CalledFunction(function, GetSlaveID(h.request.frame),
                                GetFunction(h.request.frame))
           s == [DiscreteInputs |-> DiscreteInputs, Coils |-> Coils,
                 HoldingRegisters |-> HoldingRegisters, InputRegisters |-> InputRegisters]
       IN IF fn = Nil
          THEN /\ crashed' = TRUE
               /\ handler' = [handler EXCEPT ![w].pc = "panic"]
               /\ UNCHANGED <<Coils, HoldingRegisters>>
          ELSE LET out == Invoke(fn, s, h.request.frame) IN
               /\ Coils' = out.Coils
               /\ HoldingRegisters' = out.HoldingRegisters
               /\ handler' = [handler EXCEPT ![w] =
                      [h EXCEPT !.pc = "write",
                                !.called = Append(@, fn),
                                !.bound = Binding(h.request.frame),
                                !.data = out.data,
                                !.exception = out.exception,
                                !.response = HandleReturn(SetData(h.response, out.data),
                                                          out.exception)]]
               /\ UNCHANGED crashed
    /\ UNCHANGED <<DiscreteInputs, InputRegisters, function, listeners, ports, requestChan,
                   caller, transport, open, accepted, history>>

\* The connection the response of a request is written to.
WriteConn(request) == request.conn

\* Line 113: request.conn.Write(response.Bytes()).
Write(w) ==
    /\ ~crashed
    /\ handler[w].pc = "write"
    /\ written' = Append(written, handler[w].request.id)
    /\ lastWrite' = [id |-> handler[w].request.id, conn |-> WriteConn(handler[w].request),
                     carried |-> handler[w].request.conn]
    /\ handler' = [handler EXCEPT ![w] = Idle]
    /\ UNCHANGED <<serverVars, caller, transport, open, accepted, crashed, configured,
                   requests, dispatched, closed, registered, calls, coilSet>>

(***************************************************************************)
(* The application: RegisterFunctionHandler and Close.                     *)
(***************************************************************************)
\* A registration of pair p begins: a dispatch of p in progress is no longer
\* one that follows the last completed registration of p.
Overtaken(h, p) ==
    IF h.pc \in {"call", "write"} /\ <<h.request.frame.slaveID, h.request.frame.function>> = p
    THEN [h EXCEPT !.expected = "any"] ELSE h

\* Mutant: "exists" is not tested, the call goes on with the zero table.
RegisterLookupNoCheck(c, slaveID, funcCode, fn) ==
    /\ ~crashed
    /\ caller[c].pc = "idle"
    /\ calls < MaxRegister * Cardinality(DOMAIN caller)
    /\ calls' = calls + 1
    /\ caller' = [caller EXCEPT ![c] =
           [pc |-> "store", slaveID |-> slaveID, funcCode |-> funcCode, fn |-> fn,
            table |-> MapLookup(function, slaveID).table, err |-> NoError]]
    /\ handler' = [w \in DOMAIN handler |-> Overtaken(handler[w], <<slaveID, funcCode>>)]
    /\ UNCHANGED <<serverVars, transport, open, accepted, crashed, configured,
                   requests, dispatched, written, lastWrite, closed, registered, coilSet>>

\* Lines 72-75: table, exists := s.function[slaveID]; the error return.
RegisterLookup(c, slaveID, funcCode, fn) ==
    /\ ~crashed
    /\ caller[c].pc = "idle"
    /\ calls < MaxRegister * Cardinality(DOMAIN caller)
    /\ calls' = calls + 1
    /\ LET r == MapLookup(function, slaveID) IN
       IF ~r.exists
       THEN /\ caller' = [caller EXCEPT ![c] = Returned(ErrUndefinedSlave(slaveID))]
            /\ UNCHANGED handler
       ELSE /\ caller' = [caller EXCEPT ![c] =
                  [pc |-> "store", slaveID |-> slaveID, funcCode |-> funcCode, fn |-> fn,
                   table |-> r.table, err |-> NoError]]
            /\ handler' = [w \in DOMAIN handler |-> Overtaken(handler[w], <<slaveID, funcCode>>)]
    /\ UNCHANGED <<serverVars, transport, open, accepted, crashed, configured,
                   requests, dispatched, written, lastWrite, closed, registered, coilSet>>

\* Mutant: the copy of the table is changed and never stored back in s.function.
RegisterStoreNoWriteBack(c) ==
    /\ ~crashed
    /\ caller[c].pc = "store"
    /\ caller' = [caller EXCEPT ![c] = Returned(NoError)]
    /\ registered' = [registered EXCEPT ![<<caller[c].slaveID, caller[c].funcCode>>] =
                          caller[c].fn]
    /\ UNCHANGED <<serverVars, handler, transport, open, accepted, crashed, configured,
                   requests, dispatched, written, lastWrite, closed, calls, coilSet>>

\* Lines 76-78: table[funcCode] = function; s.function[slaveID] = table; return nil.
RegisterStore(c) ==
    /\ ~crashed
    /\ caller[c].pc = "store"
    /\ LET a == caller[c]
           table == SetEntry(a.table, a.funcCode, a.fn)
       IN /\ function' = Put(function, a.slaveID, table)
          /\ caller' = [caller EXCEPT ![c] = Returned(NoError)]
          /\ registered' = [registered EXCEPT ![<<a.slaveID, a.funcCode>>] = a.fn]
    /\ UNCHANGED <<storeVars, listeners, ports, requestChan, handler, transport, open,
                   accepted, crashed, configured, requests, dispatched, written, lastWrite,
                   closed, calls, coilSet>>

\* The Go runtime's check of a map access that overlaps a map write ("fatal error:
\* concurrent map read and map write", "concurrent map writes"): s.function is
\* read by handle() and read and written by RegisterFunctionHandler without
\* synchronisation.
ConcurrentMapAccess ==
    /\ ~crashed
    /\ \E c \in DOMAIN caller :
           /\ caller[c].pc = "store"
           /\ \/ \E w \in DOMAIN handler :
                     \/ handler[w].pc = "call"
                     \/ handler[w].pc = "recv" /\ requestChan.sendq # <<>>
              \/ \E d \in DOMAIN caller : d # c /\ caller[d].pc = "store"
    /\ crashed' = TRUE
    /\ UNCHANGED <<serverVars, handler, caller, transport, open, accepted, history>>

\* Mutant: Close closes the serial ports and leaves the listeners open.
EndpointsPortsOnly(ls, ps) == {<<"port", ps[i]>> : i \in DOMAIN ps}

\* The endpoints Close closes: every listener of s.listeners, every port of s.ports.
Endpoints(ls, ps) ==
    {<<"listener", ls[i]>> : i \in DOMAIN ls} \cup {<<"port", ps[i]>> : i \in DOMAIN ps}

\* The requests sent on requestChan, or being sent, whose response is not written.
Pending == (1..requests) \ {written[i] : i \in DOMAIN written}

\* Mutant: Close also shuts requestChan down: the blocked sends are dropped.
CloseCancelsPending(c) ==
    /\ ~crashed
    /\ caller[c].pc = "idle"
    /\ open' = open \ Endpoints(listeners, ports)
    /\ closed' = [returned |-> TRUE,
                  tracked |-> closed.tracked \cup {listeners[i] : i \in DOMAIN listeners},
                  pending |-> IF closed.returned THEN closed.pending ELSE Pending # {}]
    /\ requestChan' = [requestChan EXCEPT !.sendq = <<>>]
    /\ UNCHANGED <<storeVars, function, listeners, ports, handler, caller, transport, accepted,
                   crashed, configured, requests, dispatched, written, lastWrite, registered,
                   calls, coilSet>>

\* Mutant: Close also releases the function tables.
CloseReleasesTables(c) ==
    /\ ~crashed
    /\ caller[c].pc = "idle"
    /\ open' = open \ Endpoints(listeners, ports)
    /\ closed' = [returned |-> TRUE,
                  tracked |-> closed.tracked \cup {listeners[i] : i \in DOMAIN listeners},
                  pending |-> IF closed.returned THEN closed.pending ELSE Pending # {}]
    /\ function' = <<>>
    /\ UNCHANGED <<storeVars, listeners, ports, requestChan, handler, caller, transport,
                   accepted, crashed, configured, requests, dispatched, written, lastWrite,
                   registered, calls, coilSet>>

\* Lines 118-125.
Close(c) ==
    /\ ~crashed
    /\ caller[c].pc = "idle"
    /\ open' = open \ Endpoints(listeners, ports)
    /\ closed' = [returned |-> TRUE,
                  tracked |-> closed.tracked \cup {listeners[i] : i \in DOMAIN listeners},
                  pending |-> IF closed.returned THEN closed.pending ELSE Pending # {}]
    /\ UNCHANGED <<serverVars, handler, caller, transport, accepted, crashed, configured,
                   requests, dispatched, written, lastWrite, registered, calls, coilSet>>

Next ==
    \/ \E l \in Listeners : ListenTCP(l)
    \/ \E l \in Listeners, c \in Conns : Accept(l, c)
    \/ \E t \in DOMAIN transport, frame \in Frames : Submit(t, frame)
    \/ \E w \in DOMAIN handler : Receive(w)
    \/ \E w \in DOMAIN handler : Call(w)
    \/ \E w \in DOMAIN handler : Write(w)
    \/ \E c \in DOMAIN caller, slaveID \in SlaveIDs, funcCode \in RegisterCodes,
          fn \in RegisterArgs : RegisterLookup(c, slaveID, funcCode, fn)
    \/ \E c \in DOMAIN caller : RegisterStore(c)
    \/ \E c \in DOMAIN caller : Close(c)
    \/ ConcurrentMapAccess

Spec == Init /\ [][Next]_vars

(***************************************************************************)
(* Fair scheduling: a goroutine that can take its next step takes it; the  *)
(* handler calls and the connection writes terminate.                      *)
(***************************************************************************)
Fairness ==
    /\ \A w \in HandlerGoroutines :
           WF_vars(Receive(w)) /\ WF_vars(Call(w)) /\ WF_vars(Write(w))
    /\ \A c \in Application : WF_vars(RegisterStore(c))

LiveSpec == Spec /\ Fairness

(***************************************************************************)
(* An application that registers handlers from two goroutines.             *)
(***************************************************************************)
ConcurrentApplication == {1, 2}

InitRace == InitWith(ConcurrentApplication)

SpecRace == InitRace /\ [][Next]_vars

(***************************************************************************)
(* The server with its default functions: peers write and read coils and   *)
(* the application registers nothing.                                      *)
(***************************************************************************)
\* The coil values a WriteSingleCoil request carries (off, on).
CoilValues == {0, 1}

\* ReadCoils requests for one coil, WriteSingleCoil requests.
StoreFrames ==
    {Frame(id, 1, <<a, 1>>) : id \in SlaveIDs, a \in Addresses}
        \cup {Frame(id, 5, <<a, v>>) : id \in SlaveIDs, a \in Addresses, v \in CoilValues}

NextStore ==
    \/ \E l \in Listeners : ListenTCP(l)
    \/ \E l \in Listeners, c \in Conns : Accept(l, c)
    \/ \E t \in DOMAIN transport, frame \in StoreFrames : Submit(t, frame)
    \/ \E w \in DOMAIN handler : Receive(w)
    \/ \E w \in DOMAIN handler : Call(w)
    \/ \E w \in DOMAIN handler : Write(w)
    \/ \E c \in DOMAIN caller : Close(c)

SpecStore == Init /\ [][NextStore]_vars

(***************************************************************************)
(* Properties.                                                             *)
(***************************************************************************)
\* Handler goroutine w holds a request it received and has not answered.
InFlight(w) == handler[w].pc \in {"call", "write", "panic"}

SlaveOf(w) == GetSlaveID(handler[w].request.frame)
FunctionOf(w) == GetFunction(handler[w].request.frame)

Range(q) == {q[i] : i \in DOMAIN q}
NoDuplicates(q) == \A i, j \in DOMAIN q : q[i] = q[j] => i = j

\* C1: at most one dispatch executes at any instant: no two requests are between
\* "received from requestChan" and "response written".
C1_OneDispatchAtATime ==
    Cardinality({w \in DOMAIN handler : InFlight(w)}) <= 1

\* A dispatch is executing while the send of another connection is blocked.
C1_Witness ==
    \E w \in DOMAIN handler :
        /\ handler[w].pc = "call"
        /\ \E i \in DOMAIN requestChan.sendq :
               requestChan.sendq[i].task # handler[w].request.conn

\* C2: a request for a slave ID that NewServer was not given gets a response with
\* the SlaveDeviceFailure exception, whatever its function code and whatever was
\* registered, and no handler is invoked for it.
C2_UnconfiguredSlaveFails ==
    \A w \in DOMAIN handler :
        InFlight(w) /\ SlaveOf(w) \notin configured =>
            /\ handler[w].pc = "write"
            /\ handler[w].response.exception = "SlaveDeviceFailure"
            /\ handler[w].called = <<>>
            /\ handler[w].response.calls = <<"SetException">>

\* The response to a request for an unconfigured slave is ready, after a registration.
C2_Witness ==
    \E w \in DOMAIN handler :
        /\ handler[w].pc = "write"
        /\ SlaveOf(w) \notin configured
        /\ calls > 0

\* C3: a request for a configured slave and a function code whose entry in the
\* slave's table is nil gets a response with the IllegalFunction exception, and no
\* handler is invoked for it.
C3_UnboundFunctionIsIllegal ==
    \A w \in DOMAIN handler :
        /\ InFlight(w)
        /\ SlaveOf(w) \in configured
        /\ Entry(handler[w].functions, FunctionOf(w)) = Nil
        => /\ handler[w].pc = "write"
           /\ handler[w].response.exception = "IllegalFunction"
           /\ handler[w].called = <<>>
           /\ handler[w].response.calls = <<"SetException">>

\* The response to a request for an unbound function of a configured slave is ready.
C3_Witness ==
    \E w \in DOMAIN handler :
        /\ handler[w].pc = "write"
        /\ SlaveOf(w) \in configured
        /\ Entry(handler[w].functions, FunctionOf(w)) = Nil

Bindings(fmap) ==
    UNION {{<<id, code, fmap[id][code]>> : code \in DOMAIN fmap[id]} : id \in DOMAIN fmap}

\* A dispatch that started after the last registration of its pair returned, the
\* pair not being registered again, invokes the handler of that registration and
\* no other.
C5_LastRegistered ==
    \A w \in DOMAIN handler :
        InFlight(w) /\ handler[w].expected # "any" =>
            /\ handler[w].pc # "panic"
            /\ handler[w].pc = "write" =>
                   handler[w].called = IF handler[w].expected = Nil THEN <<>>
                                       ELSE <<handler[w].expected>>

\* The store of a registration changes the binding of its pair and no other.
C5_OthersUnaffected ==
    \A c \in DOMAIN caller :
        caller[c].pc = "store" /\ caller'[c].pc = "idle" =>
            /\ DOMAIN function' = DOMAIN function
            /\ {b \in Bindings(function') : <<b[1], b[2]>> # <<caller[c].slaveID, caller[c].funcCode>>}
               = {b \in Bindings(function) : <<b[1], b[2]>> # <<caller[c].slaveID, caller[c].funcCode>>}
            /\ Entry(MapLookup(function', caller[c].slaveID).table, caller[c].funcCode)
               = caller[c].fn

C6_UnconfiguredRegistrationFails ==
    [][calls' = calls + 1 =>
          \E c \in DOMAIN caller :
              /\ caller[c].pc = "idle"
              /\ \/ /\ caller'[c].pc = "store"
                    /\ caller'[c].slaveID \in configured
                 \/ /\ caller'[c].pc = "idle"
                    /\ \E id \in SlaveIDs \ configured :
                           caller'[c].err = ErrUndefinedSlave(id)
                    /\ UNCHANGED <<serverVars, handler, registered>>]_vars

\* A registration has returned the error, and the tables are those of the
\* configured slaves.
C6_Witness ==
    \E c \in DOMAIN caller :
        /\ caller[c].pc = "idle"
        /\ caller[c].err # NoError
        /\ DOMAIN function = configured

\* The requests waiting in requestChan.
Queued ==
    {requestChan.sendq[i].request.id : i \in DOMAIN requestChan.sendq}
        \cup {requestChan.buf[i].id : i \in DOMAIN requestChan.buf}

C8_Fifo ==
    /\ \A i \in DOMAIN dispatched : dispatched[i] = i
    /\ \A i \in DOMAIN dispatched : i < Len(dispatched) => dispatched[i] \in Range(written)

\* Two requests of different connections were dispatched, the first is answered.
C8_Witness ==
    /\ Len(dispatched) = 2
    /\ Len(written) = 1
    /\ \E w \in DOMAIN handler : InFlight(w) /\ handler[w].request.conn # lastWrite.conn

\* C9 as claimed: once Close has returned no request is sent on requestChan.
C9_NoRequestAfterClose == [][closed.returned => requests' = requests]_vars

\* C9 as amended: no connection is accepted on a listener that s.listeners held
\* when Close ran.
C9_NoAcceptAfterClose ==
    [][\A c \in (DOMAIN accepted') \ (DOMAIN accepted) : accepted'[c] \notin closed.tracked]_vars

\* Close has returned, its listener had accepted a connection, and the goroutine of
\* that connection goes on.
C9_Witness ==
    /\ closed.returned
    /\ \E c \in DOMAIN accepted : accepted[c] \in closed.tracked /\ transport[c] = "blocked"

\* C10: the slaves with register tables, the slaves with a function table and the
\* slave IDs given to NewServer are the same set.
C10_SameSlaves ==
    /\ DOMAIN DiscreteInputs = configured
    /\ DOMAIN Coils = configured
    /\ DOMAIN HoldingRegisters = configured
    /\ DOMAIN InputRegisters = configured
    /\ DOMAIN function = configured

\* Registrations, a dispatch and Close have happened.
C10_Witness ==
    /\ calls > 0
    /\ Len(written) > 0
    /\ closed.returned
    /\ \E c \in DOMAIN caller : caller[c].err # NoError

\* The eight standard function codes and their standard handlers.
StandardBindings ==
    {<<1, "ReadCoils">>, <<2, "ReadDiscreteInputs">>, <<3, "ReadHoldingRegisters">>,
     <<4, "ReadInputRegisters">>, <<5, "WriteSingleCoil">>, <<6, "WriteHoldingRegister">>,
     <<15, "WriteMultipleCoils">>, <<16, "WriteHoldingRegisters">>}

\* C11: as NewServer leaves it, that is until RegisterFunctionHandler is first
\* called, the table of every configured slave binds the eight standard codes to
\* their standard handlers and no other code; a dispatch of a standard code invokes
\* its standard handler and a dispatch of any other code gets IllegalFunction.
C11_DefaultBindings ==
    calls = 0 =>
        /\ DOMAIN function = configured
        /\ \A id \in configured :
               {<<code, function[id][code]>> : code \in DOMAIN function[id]} = StandardBindings
        /\ \A w \in DOMAIN handler :
               handler[w].pc = "write" /\ SlaveOf(w) \in configured =>
                   IF \E b \in StandardBindings : b[1] = FunctionOf(w)
                   THEN \E b \in StandardBindings :
                            b[1] = FunctionOf(w) /\ handler[w].called = <<b[2]>>
                   ELSE /\ handler[w].called = <<>>
                        /\ handler[w].response.exception = "IllegalFunction"

\* No registration was made; a request of the second slave for a code that is not
\* standard got IllegalFunction, after a request that was answered.
C11_Witness ==
    /\ calls = 0
    /\ configured = {1, 2}
    /\ Len(written) = 1
    /\ \E w \in DOMAIN handler :
           /\ handler[w].pc = "write"
           /\ SlaveOf(w) = 2
           /\ FunctionOf(w) = 99
           /\ handler[w].response.exception = "IllegalFunction"

\* C12: with the default handlers bound, a ReadCoils request for coil (D, A) of a
\* configured slave returns the value of the last WriteSingleCoil request for (D, A)
\* received before it (0 when there was none), whichever connections the two
\* requests came from, and no exception.
C12_ReadReturnsLastWrite ==
    \A w \in DOMAIN handler :
        /\ handler[w].pc = "write"
        /\ FunctionOf(w) = 1
        /\ SlaveOf(w) \in configured
        => /\ handler[w].response.data = <<coilSet[SlaveOf(w)][handler[w].request.frame.data[1]]>>
           /\ handler[w].response.exception = Nil
           /\ handler[w].called = <<"ReadCoils">>

\* A coil was set by a request of one connection, and the read of another
\* connection, blocked while the write was dispatched, returns it.
C12_Witness ==
    /\ written = <<1>>
    /\ lastWrite.conn = 1
    /\ \E w \in DOMAIN handler :
           /\ handler[w].pc = "write"
           /\ FunctionOf(w) = 1
           /\ handler[w].request.conn = 2
           /\ SlaveOf(w) \in configured
           /\ coilSet[SlaveOf(w)][handler[w].request.frame.data[1]] = 1
           /\ handler[w].response.data = <<1>>

\* C13 as claimed: in a response, SetData was called if and only if the outcome is
\* Success, SetException if and only if it is not, and never both.
C13_SetDataIffSuccess ==
    \A w \in DOMAIN handler :
        handler[w].pc = "write" =>
            /\ "SetData" \in Range(handler[w].response.calls) <=> handler[w].exception = "Success"
            /\ "SetException" \in Range(handler[w].response.calls)
                   <=> handler[w].exception # "Success"
            /\ ~ {"SetData", "SetException"} \subseteq Range(handler[w].response.calls)

\* C13 as amended: in a response, SetException was called if and only if the
\* outcome is not Success, and SetData if and only if a handler was invoked, with
\* the data it returned: alone when it returned Success, followed by SetException
\* when it returned an exception; without a handler only SetException is called.
C13_SetDataIffCalled ==
    \A w \in DOMAIN handler :
        handler[w].pc = "write" =>
            /\ handler[w].response.calls =
                   IF handler[w].called = <<>> THEN <<"SetException">>
                   ELSE IF handler[w].exception = "Success" THEN <<"SetData">>
                   ELSE <<"SetData", "SetException">>
            /\ handler[w].response.exception =
                   IF handler[w].exception = "Success" THEN Nil ELSE handler[w].exception
            /\ handler[w].called # <<>> => handler[w].response.data = handler[w].data
            /\ handler[w].called = <<>> =>
                   handler[w].exception \in {"SlaveDeviceFailure", "IllegalFunction"}

\* A handler returned an exception: SetData was called, then SetException.
C13_Witness ==
    \E w \in DOMAIN handler :
        /\ handler[w].pc = "write"
        /\ handler[w].called = <<"h1">>
        /\ handler[w].exception = "IllegalDataValue"
        /\ handler[w].response.calls = <<"SetData", "SetException">>
        /\ handler[w].response.exception = "IllegalDataValue"

\* C14: a fault in the dispatch of one request never terminates the dispatch task:
\* no handler() goroutine ends in a panic while it holds a request.
C14_DispatchTaskSurvives ==
    \A w \in DOMAIN handler : handler[w].pc # "panic"

\* The position of handler goroutine w in its loop can be left.
CanProceed(w) ==
    CASE handler[w].pc = "recv" ->
             requestChan.sendq # <<>> \/ requestChan.buf # <<>> => ENABLED Receive(w)
      [] handler[w].pc = "call" -> ENABLED Call(w)
      [] handler[w].pc = "write" -> ENABLED Write(w)
      [] OTHER -> FALSE

\* A step of Close leaves the handler goroutines, requestChan and the blocked sends
\* as they are, and writes and receives nothing.
C15_CloseLeavesDispatch ==
    closed' # closed \/ open' # open \cap open' =>
        UNCHANGED <<handler, requestChan, transport, dispatched, written, requests, crashed>>

\* C15: Close neither interrupts handler() nor cancels pending requests: it changes
\* neither the handler goroutine nor requestChan nor a blocked send, and in every
\* state after it handler() is in its loop, able to receive the next request,
\* to call the handler or to write the response.
C15_CloseDoesNotInterrupt ==
    /\ [](closed.returned /\ ~crashed => \A w \in DOMAIN handler : CanProceed(w))
    /\ [][C15_CloseLeavesDispatch]_vars

\* Requests were sent and not answered when Close ran, and every request sent has
\* its response written.
C15_Witness ==
    /\ closed.returned
    /\ closed.pending
    /\ Pending = {}
    /\ Len(written) = 2

\* The requests a handler goroutine received and has not answered.
Held == Range(dispatched) \ Range(written)

\* C16: back-pressure: requestChan buffers nothing, so a send completes only when
\* handler() receives it: every request sent and not received has its transport
\* goroutine blocked in the send, also while a dispatch is executing or its response
\* is being written, and at most one request was taken from a transport goroutine
\* and is not answered.
C16_BackPressure ==
    /\ requestChan.buf = <<>>
    /\ \A i \in DOMAIN requestChan.sendq :
           /\ transport[requestChan.sendq[i].task] = "blocked"
           /\ requestChan.sendq[i].request.conn = requestChan.sendq[i].task
    /\ \A t \in DOMAIN transport :
           transport[t] = "blocked" <=>
               \E i \in DOMAIN requestChan.sendq : requestChan.sendq[i].task = t
    /\ Cardinality(Held) <= 1
    /\ Pending = Held \cup Queued

\* The response of one connection's request is being written while the send of
\* another connection is blocked.
C16_Witness ==
    /\ \E w \in DOMAIN handler :
           /\ handler[w].pc = "write"
           /\ handler[w].called # <<>>
           /\ Len(requestChan.sendq) = 1
           /\ requestChan.sendq[1].task # handler[w].request.conn
           /\ transport[requestChan.sendq[1].task] = "blocked"

\* C17: a dispatch that found a handler at the test of line 93 never calls a nil
\* function at line 94: once the call is made, a handler was invoked.
C17_NeverCallsNil ==
    \A w \in DOMAIN handler :
        /\ handler[w].pc \in {"write", "panic"}
        /\ handler[w].exists
        /\ Entry(handler[w].functions, FunctionOf(w)) # Nil
        => handler[w].called # <<>>

\* C18: no registration is lost: when no call of RegisterFunctionHandler is in
\* progress, every (slave ID, function) pair that was registered is bound to the
\* handler of its last registration that returned, also when the calls of two
\* goroutines for one slave and two function codes overlapped.
C18_NoRegistrationLost ==
    (\A c \in DOMAIN caller : caller[c].pc = "idle") =>
        \A p \in Pairs :
            registered[p] # "none" =>
                Entry(MapLookup(function, p[1]).table, p[2]) = registered[p]

\* C19: under fair scheduling every request sent on requestChan, its goroutine
\* blocked in the send, is eventually received and its response written.
C19_EventuallyAnswered ==
    \A i \in 1..MaxRequests : (requests >= i) ~> (i \in Range(written))

\* A step of a dispatch that calls no handler: the receive that ends in an
\* exception (lines 85-105 without the call), or the Write of such a response.
FailingDispatchStep ==
    \E w \in DOMAIN handler :
        \/ handler[w].pc = "recv" /\ handler'[w].pc = "write"
        \/ handler[w].pc = "write" /\ handler[w].called = <<>> /\ handler'[w].pc = "recv"

\* A step of Close.
CloseStep == closed' # closed \/ open' # open \cap open'

\* C20: a dispatch that ends in SlaveDeviceFailure or IllegalFunction, and Close,
\* change nothing: the four register tables of every slave and every binding of
\* s.function are the same before and after each of their steps, and the response
\* of such a dispatch carries one of these two exceptions.
C20_FailureAndCloseChangeNothing ==
    [][(FailingDispatchStep \/ CloseStep =>
            UNCHANGED <<DiscreteInputs, Coils, HoldingRegisters, InputRegisters, function>>)
       /\ \A w \in DOMAIN handler :
              handler[w].pc = "recv" /\ handler'[w].pc = "write" =>
                  handler'[w].response.exception \in {"SlaveDeviceFailure", "IllegalFunction"}]_vars

\* A coil was set and a handler registered; then a request got IllegalFunction or
\* SlaveDeviceFailure and Close ran, the coil and the tables in place.
C20_Witness ==
    /\ closed.returned
    /\ \E id \in configured : Coils[id][0] = 1
    /\ \E w \in DOMAIN handler :
           /\ handler[w].pc = "write"
           /\ handler[w].called = <<>>
           /\ handler[w].response.exception \in {"SlaveDeviceFailure", "IllegalFunction"}
    /\ \E p \in Pairs : registered[p] # "none"

====
